---- MODULE Spec2Model ----
(***************************************************************************)
(* Model of the weekly retraining job (demos/demo_job_retreinamento.py)    *)
(* and of the demo scripts that touch the same files.                      *)
(*                                                                         *)
(* The state is the three persisted locations (the production pickle, the  *)
(* archive directory, the fixed test CSV), the wall clock, and for every   *)
(* invocation of executar_job its position and its local variables.        *)
(* Scores are F1 values scaled to 0..MaxScore.  A trained model is opaque: *)
(* it is the pair of the run that trained it and its F1 on the fixed test  *)
(* set.                                                                    *)
(***************************************************************************)
EXTENDS Integers, Sequences, FiniteSets

VARIABLES
    producao,     \* models/modelo_em_producao.pkl (MODELO_PRODUCAO)
    arquivo,      \* models/arquivo (MODELO_ARQUIVO): timestamp key -> file
    teste,        \* data/teste_fixo.csv (DADOS_TESTE)
    relogio,      \* datetime.now(), to the second
    execucoes,    \* number of script runs (job or demo) started so far
    pc,           \* position of each invocation inside executar_job
    dados,        \* local `dados` of executar_job
    modelo,       \* local `modelo`
    f1_atual,     \* local `f1_atual`
    f1_novo,      \* local `f1_novo`
    eh_melhor,    \* local `eh_melhor`
    erro,         \* the exception in flight (str(e)), "" when none
    passos,       \* history: the steps this run has executed, in order
    alertas,      \* history: the calls of alertar made by this run
    desfechos,    \* history: the terminal outcomes this run has reported
    saida,        \* how the call of executar_job ended: "", "returned", "raised"
    producao0,    \* history: producao when this run started
    arquivo0,     \* history: arquivo when this run started
    teste0,       \* history: teste when this run started
    nPromover,    \* history: number of Promote decisions so far
    nFalhas,      \* history: number of runs that raised so far
    demo06,       \* demo_06_modelo_pior.py main: position and locals
    demo07,       \* demo_07_dados_corrompidos.py main: position and locals
    validacao     \* a call of the two validar_dados on one batch and minimum

vars == <<producao, arquivo, teste, relogio, execucoes, pc, dados, modelo,
          f1_atual, f1_novo, eh_melhor, erro, passos, alertas, desfechos,
          saida, producao0, arquivo0, teste0, nPromover, nFalhas, demo06,
          demo07, validacao>>

registro == <<producao, arquivo>>
ficheiros == <<producao, arquivo, teste>>
locais == <<dados, modelo, f1_atual, f1_novo, eh_melhor, erro>>
historia == <<passos, alertas, desfechos, saida>>
inicio == <<producao0, arquivo0, teste0>>
scripts == <<demo06, demo07, validacao>>

-----------------------------------------------------------------------------
(* Bounds of the model *)

MaxExecucoes == 3   \* script runs (job or demo) explored
MaxScore == 2       \* F1 is one of 0..MaxScore (0 is 0.0, MaxScore is 1.0)
MaxRelogio == 1     \* the clock shows one of the seconds 0..MaxRelogio
MaxLinhas == 2      \* rows in a collected batch
minimo == 2         \* validar_dados' minimum row count, scaled to MaxLinhas
MaxGatilhos == 2    \* job runs triggered in the concurrent specification

Scores == 0..MaxScore

\* The invocations of executar_job that may exist; the scheduler of the
\* sequential specification only ever triggers the first.
Procs == {"job1", "job2"}
Sequencial == {"job1"}

-----------------------------------------------------------------------------
(* Files *)

Ausente == [kind |-> "ausente"]
Truncado == [kind |-> "truncado"]

\* pickle.dump(modelo, f) followed by the close of f: the complete file.
Pickle_dump(m) == [kind |-> "pkl", modelo |-> m]

\* Path.exists()
Exists(f) == f.kind # "ausente"

\* pickle.load(f) succeeds exactly on a complete pickle.
Pickle_load_ok(f) == f.kind = "pkl"
Pickle_load(f) == f.modelo

SemModelo == [id |-> 0, f1 |-> 0]

-----------------------------------------------------------------------------
(* Batches: validar_dados *)

NaN == -1

\* A row of the batch: valor, hora, categoria (None is a missing category).
Linhas ==
    { [valor |-> 500, hora |-> 3,  categoria |-> "A"],
      [valor |-> 900, hora |-> 23, categoria |-> "D"],
      [valor |-> 20,  hora |-> 0,  categoria |-> "B"],
      [valor |-> 0 - 40, hora |-> 3,  categoria |-> "A"],
      [valor |-> 500, hora |-> 24, categoria |-> "C"],
      [valor |-> 500, hora |-> 3,  categoria |-> "None"],
      [valor |-> NaN, hora |-> 3,  categoria |-> "A"] }

RECURSIVE SeqsUpTo(_, _)
SeqsUpTo(S, n) ==
    IF n = 0 THEN {<<>>}
    ELSE LET shorter == SeqsUpTo(S, n - 1)
         IN  shorter \cup { Append(s, x) : s \in {t \in shorter : Len(t) = n - 1}, x \in S }

Lotes == SeqsUpTo(Linhas, MaxLinhas)

\* dados['valor'] > 0: a comparison with NaN is False.
ValorPositivo(l) == l.valor # NaN /\ l.valor > 0
\* dados['hora'].between(0, 23)
HoraValida(l) == l.hora # NaN /\ 0 <= l.hora /\ l.hora <= 23
\* a row dropna() keeps
SemNaN(l) == l.valor # NaN /\ l.hora # NaN /\ l.categoria # "None"

\* DataFrame.drop_duplicates(): keeps the first occurrence of every row.
RECURSIVE drop_duplicates(_)
drop_duplicates(s) ==
    IF s = <<>> THEN <<>>
    ELSE LET front == drop_duplicates(SubSeq(s, 1, Len(s) - 1))
             last == s[Len(s)]
         IN  IF \E i \in 1..Len(front) : front[i] = last THEN front
             ELSE Append(front, last)

\* Mutant of Limpar: the first row is taken for a header and dropped with
\* the invalid ones.
Limpar_sem_primeira(d) ==
    LET a == SelectSeq(d, ValorPositivo)
        b == SelectSeq(a, HoraValida)
        c == SelectSeq(drop_duplicates(b), SemNaN)
    IN  IF c = <<>> THEN c ELSE Tail(c)

\* Mutant of Limpar: drop_duplicates(keep=False), which drops every row
\* that occurs more than once, the first occurrence too.
Limpar_sem_repetidas(d) ==
    LET a == SelectSeq(d, ValorPositivo)
        b == SelectSeq(a, HoraValida)
        Unica(l) == Len(SelectSeq(b, LAMBDA x : x = l)) = 1
    IN  SelectSeq(SelectSeq(b, Unica), SemNaN)

\* The cleaning of validar_dados, lines 99-102, in the order of the code.
Limpar(d) ==
    LET a == SelectSeq(d, ValorPositivo)
        b == SelectSeq(a, HoraValida)
        c == drop_duplicates(b)
    IN  SelectSeq(c, SemNaN)

\* The batch after each statement of the cleaning, lines 99, 100, 101, 102.
Limpar_etapas(d) ==
    LET a == SelectSeq(d, ValorPositivo)
        b == SelectSeq(a, HoraValida)
        c == drop_duplicates(b)
    IN  <<a, b, c, SelectSeq(c, SemNaN)>>

\* len(dados) < minimo: raise ValueError
validar_falha(d) == Len(Limpar(d)) < minimo

\* How a call ends: with the value it returns or with the exception it
\* raises.
Devolve(d) == [tipo |-> "return", dados |-> d]
Levanta(e) == [tipo |-> e, dados |-> <<>>]
Nada == [tipo |-> "", dados |-> <<>>]

\* validar_dados(dados, minimo) of the job, lines 96-113.
validar_dados(d, m) ==
    LET limpos == Limpar(d)
    IN  IF Len(limpos) < m THEN Levanta("ValueError") ELSE Devolve(limpos)

\* What the ValueError of the job's validar_dados says (line 110): the
\* values its message is formatted from, each under the name of what it
\* counts; no message when nothing is raised.
Mensagem(d, m) ==
    LET limpos == Limpar(d)
    IN  IF Len(limpos) < m
        THEN {<<"limpos", Len(limpos)>>, <<"minimo", m>>}
        ELSE {}

\* The cleaning of demo_07's validar_dados, lines 76-87: dropna first, and
\* no drop_duplicates.
Demo07_Limpar(d) ==
    LET a == SelectSeq(d, SemNaN)
        b == SelectSeq(a, ValorPositivo)
    IN  SelectSeq(b, HoraValida)

\* The batch after each statement of demo_07's cleaning, lines 76, 82, 87.
Demo07_Limpar_etapas(d) ==
    LET a == SelectSeq(d, SemNaN)
        b == SelectSeq(a, ValorPositivo)
    IN  <<a, b, SelectSeq(b, HoraValida)>>

\* validar_dados(dados, minimo) of demo_07, lines 73-104.  Line 98 divides
\* by n_original before the ValueError is built: on a batch of no rows the
\* division raises ZeroDivisionError.
Demo07_validar_dados(d, m) ==
    LET n_original == Len(d)
        dados_limpos == Demo07_Limpar(d)
    IN  IF Len(dados_limpos) < m
        THEN IF n_original = 0 THEN Levanta("ZeroDivisionError")
             ELSE Levanta("ValueError")
        ELSE Devolve(dados_limpos)

\* Format specification .0f (demo_07 line 101) of the quotient num / den:
\* the nearest integer, the even one of two that are equally near.
Formato_0f(num, den) ==
    LET baixo == num \div den
        resto == 2 * (num % den)
    IN  IF resto < den THEN baixo
        ELSE IF resto > den THEN baixo + 1
        ELSE IF baixo % 2 = 0 THEN baixo ELSE baixo + 1

\* What the ValueError of demo_07's validar_dados says (lines 97-102); the
\* ZeroDivisionError of line 98 has no such message.
Demo07_Mensagem(d, m) ==
    LET n_original == Len(d)
        dados_limpos == Demo07_Limpar(d)
    IN  IF Len(dados_limpos) < m /\ n_original # 0
        THEN {<<"limpos", Len(dados_limpos)>>, <<"minimo", m>>,
              <<"perdidos", Formato_0f((n_original - Len(dados_limpos)) * 100,
                                       n_original)>>}
        ELSE {}

\* The order in which pd.get_dummies puts the dummy columns: the sorted
\* values of the column.
Ordem_das_categorias == <<"A", "B", "C", "D">>

\* preparar_features, lines 121-124: the columns of X.  The numeric columns
\* pass through; pd.get_dummies(dados, columns=['categoria']) then makes
\* one column for every value of categoria that occurs in this batch (a
\* missing value gets none), named after the value.
preparar_features(d) ==
    LET Ocorre(c) == \E i \in 1..Len(d) : d[i].categoria = c
    IN  <<"valor", "hora">> \o SelectSeq(Ordem_das_categorias, Ocorre)

\* gerar_dados_corrompidos (demo_07 lines 24-61): a seeded batch, so always
\* the same one, of half the minimum of rows, with negative values, hours
\* out of range, missing categories and NaN among them.
dados_corrompidos ==
    [i \in 1..MaxLinhas |->
        CASE i % 5 = 1 -> [valor |-> 500, hora |-> 3, categoria |-> "A"]
          [] i % 5 = 2 -> [valor |-> 0 - 40, hora |-> 3, categoria |-> "A"]
          [] i % 5 = 3 -> [valor |-> 500, hora |-> 24, categoria |-> "C"]
          [] i % 5 = 4 -> [valor |-> 500, hora |-> 3, categoria |-> "None"]
          [] OTHER -> [valor |-> NaN, hora |-> 3, categoria |-> "A"]]

\* The minimums validar_dados is called with.
Minimos == 0..(MaxLinhas + 1)

-----------------------------------------------------------------------------
(* Scoring and the promotion rule *)

\* avaliar_modelo: the values f1_score can give a model on test file t.  A
\* model's record holds its F1 on the job's own fixed test set; what it
\* scores on other data is not determined by the record.
avaliar_modelo(m, t) == IF t = "fixo" THEN {m.f1} ELSE Scores

\* Mutant of F1Atual: the default for a missing incumbent is the top score.
F1Atual_maximo(prod, t) ==
    IF Exists(prod) THEN avaliar_modelo(Pickle_load(prod), t) ELSE {MaxScore}

\* comparar_modelos, lines 218-225: the score the incumbent gets; 0.0 when
\* there is no production file.
F1Atual(prod, t) ==
    IF Exists(prod) THEN avaliar_modelo(Pickle_load(prod), t) ELSE {0}

\* Mutant of Comparar: a strict comparison, so that a tie rejects.
Comparar_estrito(atual, novo) == novo > atual

\* comparar_modelos, line 231: f1_novo >= f1_atual
Comparar(atual, novo) == novo >= atual

\* Mutant of obter_dados_teste: the test set is generated anew, unseeded,
\* at every call.
obter_dados_teste_regenera(t) == "regenerado"

\* obter_dados_teste (lines 163-193): the test file after the call.  The
\* file that is there is read and left alone; only when there is none is
\* the seeded set generated and written.  The rows the call returns are
\* the rows of that file (to_csv and read_csv are taken to keep them).
obter_dados_teste(t) == IF t = "ausente" THEN "fixo" ELSE t

\* datetime.now().strftime("%Y%m%d_%H%M%S"): the archive key of a promotion.
Timestamp(agora) == agora

\* shutil.copy(src, destino): destino holds what src holds, replacing
\* whatever was stored under that name.
Copiar(dir, chave, f) ==
    [k \in (DOMAIN dir) \cup {chave} |-> IF k = chave THEN f ELSE dir[k]]

-----------------------------------------------------------------------------
(* Initial state: nothing persisted, no job running *)

Demo07Parado == [pc |-> "idle", dados |-> <<>>, erro |-> ""]
SemValidacao ==
    [pc |-> "idle", lote |-> <<>>, minimo |-> 0, job |-> Nada, demo07 |-> Nada,
     de_novo |-> Nada, colunas |-> <<>>, erro_job |-> {}, erro_demo07 |-> {}]

Quieto ==
    /\ producao = Ausente
    /\ arquivo = <<>>
    /\ teste = "ausente"
    /\ relogio = 0
    /\ execucoes = 0
    /\ pc = [p \in Procs |-> "idle"]
    /\ dados = [p \in Procs |-> <<>>]
    /\ modelo = [p \in Procs |-> SemModelo]
    /\ f1_atual = [p \in Procs |-> 0]
    /\ f1_novo = [p \in Procs |-> 0]
    /\ eh_melhor = [p \in Procs |-> FALSE]
    /\ erro = [p \in Procs |-> ""]
    /\ passos = [p \in Procs |-> <<>>]
    /\ alertas = [p \in Procs |-> <<>>]
    /\ desfechos = [p \in Procs |-> <<>>]
    /\ saida = [p \in Procs |-> ""]
    /\ producao0 = [p \in Procs |-> Ausente]
    /\ arquivo0 = [p \in Procs |-> <<>>]
    /\ teste0 = [p \in Procs |-> "ausente"]
    /\ nPromover = 0
    /\ nFalhas = 0
    /\ demo06 = [pc |-> "idle", f1_atual |-> 0, f1_novo |-> 0, decisao |-> ""]
    /\ demo07 = Demo07Parado

Init == Quieto /\ validacao = SemValidacao

\* A call of validar_dados under way, on any batch with any minimum.
InitValidar ==
    /\ Quieto
    /\ \E d \in Lotes, m \in Minimos :
          validacao = [SemValidacao EXCEPT !.pc = "chamada", !.lote = d, !.minimo = m]

-----------------------------------------------------------------------------
(* executar_job, one action per step *)

Ir(p, destino) == pc' = [pc EXCEPT ![p] = destino]
Passo(p, nome) == passos' = [passos EXCEPT ![p] = Append(@, nome)]

\* An exception leaves the try block: control goes to the except clause.
\* Nothing reads the batch from there on: the model forgets it.
Raise(p, mensagem) ==
    /\ Ir(p, "except")
    /\ erro' = [erro EXCEPT ![p] = mensagem]
    /\ dados' = [dados EXCEPT ![p] = <<>>]

\* A call of executar_job (lines 274-282).  Scripts run one at a time: the
\* job is not started while the demo script is in the middle of its run.
Start(p) ==
    /\ pc[p] = "idle"
    /\ demo06.pc = "idle"
    /\ demo07.pc = "idle"
    /\ execucoes < MaxExecucoes
    /\ execucoes' = execucoes + 1
    /\ Ir(p, "collect")
    /\ producao0' = [producao0 EXCEPT ![p] = producao]
    /\ arquivo0' = [arquivo0 EXCEPT ![p] = arquivo]
    /\ teste0' = [teste0 EXCEPT ![p] = teste]
    /\ UNCHANGED <<ficheiros, relogio, locais, historia, nPromover, nFalhas, scripts>>

\* 1. coletar_dados (lines 284-285) returns a batch.
Collect(p) ==
    /\ pc[p] = "collect"
    /\ \E d \in Lotes : dados' = [dados EXCEPT ![p] = d]
    /\ Ir(p, "validate")
    /\ Passo(p, "Collect")
    /\ UNCHANGED <<ficheiros, relogio, execucoes, modelo, f1_atual, f1_novo,
                   eh_melhor, erro, alertas, desfechos, saida,
                   inicio, nPromover, nFalhas, scripts>>

\* 1. coletar_dados raises (pd.read_csv on an unreadable file).
CollectFails(p) ==
    /\ pc[p] = "collect"
    /\ Raise(p, "collect")
    /\ Passo(p, "Collect")
    /\ UNCHANGED <<ficheiros, relogio, execucoes, modelo, f1_atual,
                   f1_novo, eh_melhor, alertas, desfechos, saida,
                   inicio, nPromover, nFalhas, scripts>>

\* 2. validar_dados (line 288) returns the cleaned batch.
Validate(p) ==
    /\ pc[p] = "validate"
    /\ ~validar_falha(dados[p])
    /\ dados' = [dados EXCEPT ![p] = Limpar(@)]
    /\ Ir(p, "train")
    /\ Passo(p, "Validate")
    /\ UNCHANGED <<ficheiros, relogio, execucoes, modelo, f1_atual, f1_novo,
                   eh_melhor, erro, alertas, desfechos, saida,
                   inicio, nPromover, nFalhas, scripts>>

\* Mutant of ValidateFails: the shortfall is only logged and the job goes on
\* to train on the batch as collected.
ValidateFails_continua(p) ==
    /\ pc[p] = "validate"
    /\ validar_falha(dados[p])
    /\ Ir(p, "train")
    /\ Passo(p, "Validate")
    /\ UNCHANGED <<ficheiros, relogio, execucoes, locais, alertas, desfechos,
                   saida, inicio, nPromover, nFalhas, scripts>>

\* Mutant of ValidateFails: the test set is obtained before the batch is
\* validated, so a run that fails validation has created the test file.
ValidateFails_cria_teste(p) ==
    /\ pc[p] = "validate"
    /\ validar_falha(dados[p])
    /\ teste' = obter_dados_teste(teste)
    /\ Raise(p, "Dados insuficientes")
    /\ Passo(p, "Validate")
    /\ UNCHANGED <<registro, relogio, execucoes, modelo, f1_atual,
                   f1_novo, eh_melhor, alertas, desfechos, saida, inicio,
                   nPromover, nFalhas, scripts>>

\* 2. validar_dados raises ValueError("Dados insuficientes ...") (line 110).
ValidateFails(p) ==
    /\ pc[p] = "validate"
    /\ validar_falha(dados[p])
    /\ Raise(p, "Dados insuficientes")
    /\ Passo(p, "Validate")
    /\ UNCHANGED <<ficheiros, relogio, execucoes, modelo, f1_atual,
                   f1_novo, eh_melhor, alertas, desfechos, saida,
                   inicio, nPromover, nFalhas, scripts>>

\* 3. treinar_modelo (line 291) returns a model; its quality is not decided
\* by the job.  The batch is not read again: the model forgets it.
Train(p) ==
    /\ pc[p] = "train"
    /\ \E q \in Scores : modelo' = [modelo EXCEPT ![p] = [id |-> execucoes, f1 |-> q]]
    /\ dados' = [dados EXCEPT ![p] = <<>>]
    /\ Ir(p, "evaluate")
    /\ Passo(p, "Train")
    /\ UNCHANGED <<ficheiros, relogio, execucoes, f1_atual, f1_novo,
                   eh_melhor, erro, alertas, desfechos, saida,
                   inicio, nPromover, nFalhas, scripts>>

\* Mutant of TrainFails: the failure is caught inside the step and the
\* training is tried again.
TrainFails_repete(p) ==
    /\ pc[p] = "train"
    /\ Passo(p, "Train")
    /\ UNCHANGED <<ficheiros, relogio, execucoes, pc, locais, alertas,
                   desfechos, saida, inicio, nPromover, nFalhas, scripts>>

\* 3. treinar_modelo raises (modelo.fit fails).
TrainFails(p) ==
    /\ pc[p] = "train"
    /\ Raise(p, "train")
    /\ Passo(p, "Train")
    /\ UNCHANGED <<ficheiros, relogio, execucoes, modelo, f1_atual,
                   f1_novo, eh_melhor, alertas, desfechos, saida,
                   inicio, nPromover, nFalhas, scripts>>

\* Mutant of Evaluate: the generated test set is used from memory and never
\* written to data/teste_fixo.csv.
Evaluate_em_memoria(p) ==
    /\ pc[p] = "evaluate"
    /\ Exists(producao) => Pickle_load_ok(producao)
    /\ \E novo \in avaliar_modelo(modelo[p], obter_dados_teste(teste)) :
          f1_novo' = [f1_novo EXCEPT ![p] = novo]
    /\ \E atual \in F1Atual(producao, obter_dados_teste(teste)) :
          f1_atual' = [f1_atual EXCEPT ![p] = atual]
    /\ Ir(p, "decide")
    /\ Passo(p, "Evaluate")
    /\ UNCHANGED <<ficheiros, relogio, execucoes, dados, modelo, eh_melhor,
                   erro, alertas, desfechos, saida, inicio,
                   nPromover, nFalhas, scripts>>

\* 4. comparar_modelos, lines 211-228: obtain the test set, score the new
\* model, load and score the current one.
Evaluate(p) ==
    /\ pc[p] = "evaluate"
    /\ Exists(producao) => Pickle_load_ok(producao)
    /\ teste' = obter_dados_teste(teste)
    /\ \E novo \in avaliar_modelo(modelo[p], teste') :
          f1_novo' = [f1_novo EXCEPT ![p] = novo]
    /\ \E atual \in F1Atual(producao, teste') :
          f1_atual' = [f1_atual EXCEPT ![p] = atual]
    /\ Ir(p, "decide")
    /\ Passo(p, "Evaluate")
    /\ UNCHANGED <<registro, relogio, execucoes, dados, modelo, eh_melhor,
                   erro, alertas, desfechos, saida, inicio,
                   nPromover, nFalhas, scripts>>

\* 4. comparar_modelos raises after obter_dados_teste: predict fails on the
\* test matrix, or pickle.load fails on a truncated production file.
EvaluateFails(p) ==
    /\ pc[p] = "evaluate"
    /\ teste' = obter_dados_teste(teste)
    /\ Raise(p, "evaluate")
    /\ Passo(p, "Evaluate")
    /\ UNCHANGED <<registro, relogio, execucoes, modelo, f1_atual,
                   f1_novo, eh_melhor, alertas, desfechos, saida,
                   inicio, nPromover, nFalhas, scripts>>

\* 5. the decision: line 231 computes it, line 297 branches on it.
Decide(p) ==
    /\ pc[p] = "decide"
    /\ LET melhor == Comparar(f1_atual[p], f1_novo[p])
       IN  /\ eh_melhor' = [eh_melhor EXCEPT ![p] = melhor]
           /\ Ir(p, IF melhor THEN "promote" ELSE "notify")
           /\ nPromover' = IF melhor THEN nPromover + 1 ELSE nPromover
    /\ Passo(p, "Decide")
    /\ UNCHANGED <<ficheiros, relogio, execucoes, dados, modelo, f1_atual,
                   f1_novo, erro, alertas, desfechos, saida,
                   inicio, nFalhas, scripts>>

\* Mutant of Arquivar: the incumbent is not copied anywhere before it is
\* overwritten.
Arquivar_nada(dir, prod, agora) == dir

\* Mutant of Arquivar: an archive entry is made at every promotion, also
\* when there is no production file to put in it.
Arquivar_sempre(dir, prod, agora) == Copiar(dir, Timestamp(agora), prod)

\* promover_modelo, lines 243-249: the incumbent file, if any, is copied
\* into the archive under the timestamp of this promotion.
Arquivar(dir, prod, agora) ==
    IF Exists(prod) THEN Copiar(dir, Timestamp(agora), prod) ELSE dir

PromoteArchive(p) ==
    /\ pc[p] = "promote"
    /\ arquivo' = Arquivar(arquivo, producao, relogio)
    /\ Ir(p, "promote_open")
    /\ Passo(p, "Promote")
    /\ UNCHANGED <<producao, teste, relogio, execucoes, locais, alertas,
                   desfechos, saida, inicio, nPromover, nFalhas, scripts>>

\* shutil.copy raises part-way (disk full): the archive entry it opened for
\* writing stays behind, incomplete.
PromoteArchiveFails(p) ==
    /\ pc[p] = "promote"
    /\ Exists(producao)
    /\ arquivo' = Copiar(arquivo, Timestamp(relogio), Truncado)
    /\ Raise(p, "promote")
    /\ Passo(p, "Promote")
    /\ UNCHANGED <<producao, teste, relogio, execucoes, modelo,
                   f1_atual, f1_novo, eh_melhor, alertas, desfechos, saida,
                   inicio, nPromover, nFalhas, scripts>>

\* open(MODELO_PRODUCAO, 'wb') (line 253): creates the file, or truncates
\* the one that is there.
Open_wb(f) == Truncado

PromoteOpen(p) ==
    /\ pc[p] = "promote_open"
    /\ producao' = Open_wb(producao)
    /\ Ir(p, "promote_dump")
    /\ UNCHANGED <<arquivo, teste, relogio, execucoes, locais, historia,
                   inicio, nPromover, nFalhas, scripts>>

\* mkdir or open raises (no permission): the production file is untouched.
PromoteOpenFails(p) ==
    /\ pc[p] = "promote_open"
    /\ Raise(p, "promote")
    /\ UNCHANGED <<ficheiros, relogio, execucoes, modelo, f1_atual,
                   f1_novo, eh_melhor, historia, inicio,
                   nPromover, nFalhas, scripts>>

\* Mutant of PromoteDump: the team is notified of a promotion as well.
PromoteDump_alerta(p) ==
    /\ pc[p] = "promote_dump"
    /\ producao' = Pickle_dump(modelo[p])
    /\ alertas' = [alertas EXCEPT ![p] =
          Append(@, [mensagem |-> "Modelo promovido", f1 |-> <<f1_atual[p], f1_novo[p]>>])]
    /\ desfechos' = [desfechos EXCEPT ![p] = Append(@, "promoted")]
    /\ Ir(p, "finally")
    /\ UNCHANGED <<arquivo, teste, relogio, execucoes, locais, passos,
                   saida, inicio, nPromover, nFalhas, scripts>>

\* pickle.dump and the close of the file (lines 254-256): the production
\* file is the new model, and the promotion is reported.
PromoteDump(p) ==
    /\ pc[p] = "promote_dump"
    /\ producao' = Pickle_dump(modelo[p])
    /\ desfechos' = [desfechos EXCEPT ![p] = Append(@, "promoted")]
    /\ Ir(p, "finally")
    /\ UNCHANGED <<arquivo, teste, relogio, execucoes, locais, passos,
                   alertas, saida, inicio, nPromover, nFalhas, scripts>>

\* Mutant of PromoteDumpFails: the promotion is reported before the write
\* that then fails.
PromoteDumpFails_reportado(p) ==
    /\ pc[p] = "promote_dump"
    /\ Raise(p, "promote")
    /\ desfechos' = [desfechos EXCEPT ![p] = Append(@, "promoted")]
    /\ UNCHANGED <<ficheiros, relogio, execucoes, modelo, f1_atual,
                   f1_novo, eh_melhor, passos, alertas, saida,
                   inicio, nPromover, nFalhas, scripts>>

\* pickle.dump raises (disk full): the file stays as far as it was written.
PromoteDumpFails(p) ==
    /\ pc[p] = "promote_dump"
    /\ Raise(p, "promote")
    /\ UNCHANGED <<ficheiros, relogio, execucoes, modelo, f1_atual,
                   f1_novo, eh_melhor, historia, inicio,
                   nPromover, nFalhas, scripts>>

\* Mutant of alertar: the scores are left out of the alert.
alertar_sem_f1(mensagem, pontuacoes) == [mensagem |-> mensagem, f1 |-> <<>>]

\* alertar(mensagem, f1_atual, f1_novo), lines 259-271: what the team gets.
alertar(mensagem, pontuacoes) == [mensagem |-> mensagem, f1 |-> pontuacoes]

\* Mutant of Notify: the rejected candidate is kept, filed in the archive
\* under the timestamp of the rejection.
Notify_arquiva(p) ==
    /\ pc[p] = "notify"
    /\ arquivo' = Copiar(arquivo, Timestamp(relogio), Pickle_dump(modelo[p]))
    /\ alertas' = [alertas EXCEPT ![p] =
          Append(@, alertar("Modelo novo pior que atual", <<f1_atual[p], f1_novo[p]>>))]
    /\ desfechos' = [desfechos EXCEPT ![p] = Append(@, "rejected")]
    /\ Ir(p, "finally")
    /\ Passo(p, "Notify")
    /\ UNCHANGED <<producao, teste, relogio, execucoes, locais, saida, inicio,
                   nPromover, nFalhas, scripts>>

\* 5. the new model is worse (lines 300-302): alert with both scores.
Notify(p) ==
    /\ pc[p] = "notify"
    /\ alertas' = [alertas EXCEPT ![p] =
          Append(@, alertar("Modelo novo pior que atual", <<f1_atual[p], f1_novo[p]>>))]
    /\ desfechos' = [desfechos EXCEPT ![p] = Append(@, "rejected")]
    /\ Ir(p, "finally")
    /\ Passo(p, "Notify")
    /\ UNCHANGED <<ficheiros, relogio, execucoes, locais, saida,
                   inicio, nPromover, nFalhas, scripts>>

\* Mutant of Except: the end-of-job log sits after the try statement
\* instead of in a finally clause, so the re-raise skips it.
Except_sem_finally(p) ==
    /\ pc[p] = "except"
    /\ alertas' = [alertas EXCEPT ![p] = Append(@, alertar(erro[p], <<>>))]
    /\ desfechos' = [desfechos EXCEPT ![p] = Append(@, "aborted")]
    /\ saida' = [saida EXCEPT ![p] = "raised"]
    /\ nFalhas' = nFalhas + 1
    /\ Ir(p, "done")
    /\ Passo(p, "Aborted")
    /\ UNCHANGED <<ficheiros, relogio, execucoes, locais,
                   inicio, nPromover, scripts>>

\* except Exception as e (lines 304-307): log the failure, alert with
\* str(e), re-raise.
Except(p) ==
    /\ pc[p] = "except"
    /\ alertas' = [alertas EXCEPT ![p] = Append(@, alertar(erro[p], <<>>))]
    /\ desfechos' = [desfechos EXCEPT ![p] = Append(@, "aborted")]
    /\ Ir(p, "finally")
    /\ Passo(p, "Aborted")
    /\ UNCHANGED <<ficheiros, relogio, execucoes, locais, saida,
                   inicio, nPromover, nFalhas, scripts>>

\* A finally clause that ends with a return statement: the exception in
\* flight is discarded and the call returns.
Finally_engole(p) ==
    /\ pc[p] = "finally"
    /\ Passo(p, "Report")
    /\ saida' = [saida EXCEPT ![p] = "returned"]
    /\ nFalhas' = IF erro[p] = "" THEN nFalhas ELSE nFalhas + 1
    /\ Ir(p, "done")
    /\ UNCHANGED <<ficheiros, relogio, execucoes, locais, alertas, desfechos,
                   inicio, nPromover, scripts>>

\* finally (lines 309-312): the end-of-job log; then the call returns, or
\* the exception re-raised by the except clause reaches the caller.
Finally(p) ==
    /\ pc[p] = "finally"
    /\ Passo(p, "Report")
    /\ saida' = [saida EXCEPT ![p] = IF erro[p] = "" THEN "returned" ELSE "raised"]
    /\ nFalhas' = IF erro[p] = "" THEN nFalhas ELSE nFalhas + 1
    /\ Ir(p, "done")
    /\ UNCHANGED <<ficheiros, relogio, execucoes, locais, alertas, desfechos,
                   inicio, nPromover, scripts>>

\* The caller has the result of the call: the frame of executar_job, with
\* its locals, is gone.
Exit(p) ==
    /\ pc[p] = "done"
    /\ Ir(p, "idle")
    /\ dados' = [dados EXCEPT ![p] = <<>>]
    /\ modelo' = [modelo EXCEPT ![p] = SemModelo]
    /\ f1_atual' = [f1_atual EXCEPT ![p] = 0]
    /\ f1_novo' = [f1_novo EXCEPT ![p] = 0]
    /\ eh_melhor' = [eh_melhor EXCEPT ![p] = FALSE]
    /\ erro' = [erro EXCEPT ![p] = ""]
    /\ passos' = [passos EXCEPT ![p] = <<>>]
    /\ alertas' = [alertas EXCEPT ![p] = <<>>]
    /\ desfechos' = [desfechos EXCEPT ![p] = <<>>]
    /\ saida' = [saida EXCEPT ![p] = ""]
    /\ producao0' = [producao0 EXCEPT ![p] = Ausente]
    /\ arquivo0' = [arquivo0 EXCEPT ![p] = <<>>]
    /\ teste0' = [teste0 EXCEPT ![p] = "ausente"]
    /\ UNCHANGED <<ficheiros, relogio, execucoes, nPromover, nFalhas, scripts>>

\* A second of wall-clock time passes.
Tick ==
    /\ relogio < MaxRelogio
    /\ relogio' = relogio + 1
    /\ UNCHANGED <<ficheiros, execucoes, pc, locais, historia,
                   inicio, nPromover, nFalhas, scripts>>

-----------------------------------------------------------------------------
(* demo_06_modelo_pior.py: main, run as a script of its own *)

UNCHANGED_job ==
    UNCHANGED <<arquivo, relogio, pc, locais, historia, inicio,
                nPromover, nFalhas, demo07, validacao>>

\* The model criar_modelo_bom trains: no job run trained it.
modelo_bom(q) == [id |-> MaxExecucoes + 1, f1 |-> q]

\* Setup (lines 140-142): criar_modelo_bom writes the production file,
\* criar_dados_teste writes the test file with labels of its own,
\* treinar_modelo_ruim trains the DummyClassifier.
Demo06Setup ==
    /\ demo06.pc = "idle"
    /\ demo07.pc = "idle"
    /\ \A p \in Procs : pc[p] = "idle"
    /\ execucoes < MaxExecucoes
    /\ execucoes' = execucoes + 1
    /\ \E q \in Scores : producao' = Pickle_dump(modelo_bom(q))
    /\ teste' = "demo06"
    /\ demo06' = [pc |-> "compare", f1_atual |-> 0, f1_novo |-> 0, decisao |-> ""]
    /\ UNCHANGED_job

\* comparar_modelos of the demo (lines 109-125, called at 145): the model
\* that always predicts the majority class has F1 0.0.
Demo06Compare ==
    /\ demo06.pc = "compare"
    /\ \E atual \in Scores :
          demo06' = [demo06 EXCEPT !.pc = "decide", !.f1_atual = atual, !.f1_novo = 0]
    /\ UNCHANGED <<producao, teste, execucoes>>
    /\ UNCHANGED_job

\* demo_06 line 151: if f1_novo >= f1_atual
Demo06Comparar(atual, novo) == novo >= atual

\* The decision printed (lines 151-164).
Demo06Decide ==
    /\ demo06.pc = "decide"
    /\ demo06' = [demo06 EXCEPT !.pc = "done",
                     !.decisao = IF Demo06Comparar(demo06.f1_atual, demo06.f1_novo)
                                 THEN "PROMOVER" ELSE "PIOR"]
    /\ UNCHANGED <<producao, teste, execucoes>>
    /\ UNCHANGED_job

\* The script ends.
Demo06Exit ==
    /\ demo06.pc = "done"
    /\ demo06' = [pc |-> "idle", f1_atual |-> 0, f1_novo |-> 0, decisao |-> ""]
    /\ UNCHANGED <<producao, teste, execucoes>>
    /\ UNCHANGED_job

Demo06 == Demo06Setup \/ Demo06Compare \/ Demo06Decide \/ Demo06Exit

-----------------------------------------------------------------------------
(* demo_07_dados_corrompidos.py: main *)

\* Line 125: the corrupted batch is generated.
Demo07Gerar ==
    /\ demo07.pc = "idle"
    /\ demo06.pc = "idle"
    /\ \A p \in Procs : pc[p] = "idle"
    /\ execucoes < MaxExecucoes
    /\ execucoes' = execucoes + 1
    /\ demo07' = [pc |-> "validate", dados |-> dados_corrompidos, erro |-> ""]
    /\ UNCHANGED <<ficheiros, relogio, pc, locais, historia, inicio,
                   nPromover, nFalhas, demo06, validacao>>

\* Lines 128-134: the try block.  A ValueError goes to the except clause; a
\* batch that passes reaches the print that stands for the training; any
\* other exception ends the script.
Demo07Validar ==
    /\ demo07.pc = "validate"
    /\ LET r == Demo07_validar_dados(demo07.dados, minimo)
       IN  demo07' = [demo07 EXCEPT
                         !.pc = CASE r.tipo = "ValueError" -> "except"
                                  [] r.tipo = "return" -> "train"
                                  [] OTHER -> "crash",
                         !.dados = r.dados,
                         !.erro = IF r.tipo = "return" THEN "" ELSE r.tipo]
    /\ UNCHANGED <<ficheiros, relogio, execucoes, pc, locais, historia,
                   inicio, nPromover, nFalhas, demo06, validacao>>

\* Lines 135-163: the report is printed and the script ends.
Demo07Exit ==
    /\ demo07.pc \in {"except", "train", "crash"}
    /\ demo07' = Demo07Parado
    /\ UNCHANGED <<ficheiros, relogio, execucoes, pc, locais, historia,
                   inicio, nPromover, nFalhas, demo06, validacao>>

Demo07 == Demo07Gerar \/ Demo07Validar \/ Demo07Exit

-----------------------------------------------------------------------------
(* demo_04_primeira_execucao.py: main *)

\* limpar_estado (lines 20-44) removes the production file, the test file
\* and the archive directory; then main calls executar_job (lines 62-66).
Demo04(p) ==
    /\ pc[p] = "idle"
    /\ demo06.pc = "idle"
    /\ demo07.pc = "idle"
    /\ execucoes < MaxExecucoes
    /\ execucoes' = execucoes + 1
    /\ producao' = Ausente
    /\ arquivo' = <<>>
    /\ teste' = "ausente"
    /\ Ir(p, "collect")
    /\ producao0' = [producao0 EXCEPT ![p] = Ausente]
    /\ arquivo0' = [arquivo0 EXCEPT ![p] = <<>>]
    /\ teste0' = [teste0 EXCEPT ![p] = "ausente"]
    /\ UNCHANGED <<relogio, locais, historia, nPromover, nFalhas, scripts>>

-----------------------------------------------------------------------------
(* The two validar_dados, called on one batch *)

UNCHANGED_validacao ==
    UNCHANGED <<ficheiros, relogio, execucoes, pc, locais, historia, inicio,
                nPromover, nFalhas, demo06, demo07>>

\* The job's validar_dados is applied to the batch.
ValidarJob ==
    /\ validacao.pc = "chamada"
    /\ validacao' = [validacao EXCEPT !.pc = "job",
                        !.job = validar_dados(validacao.lote, validacao.minimo),
                        !.erro_job = Mensagem(validacao.lote, validacao.minimo)]
    /\ UNCHANGED_validacao

\* demo_07's validar_dados is applied to the same batch.
ValidarDemo07 ==
    /\ validacao.pc = "job"
    /\ validacao' = [validacao EXCEPT !.pc = "demo07",
                        !.demo07 = Demo07_validar_dados(validacao.lote, validacao.minimo),
                        !.erro_demo07 = Demo07_Mensagem(validacao.lote, validacao.minimo)]
    /\ UNCHANGED_validacao

\* The batch the job's validar_dados returned is validated once more.
Revalidar ==
    /\ validacao.pc = "demo07"
    /\ validacao' = [validacao EXCEPT !.pc = "fim",
                        !.de_novo = IF validacao.job.tipo = "return"
                                    THEN validar_dados(validacao.job.dados, validacao.minimo)
                                    ELSE Nada]
    /\ UNCHANGED_validacao

\* treinar_modelo, line 142: the features are prepared from the batch the
\* validator returned.
Preparar ==
    /\ validacao.pc = "fim"
    /\ validacao.job.tipo = "return"
    /\ validacao' = [validacao EXCEPT !.pc = "features",
                        !.colunas = preparar_features(validacao.job.dados)]
    /\ UNCHANGED_validacao

NextValidar == ValidarJob \/ ValidarDemo07 \/ Revalidar \/ Preparar

-----------------------------------------------------------------------------
(* Specifications *)

Job(p) ==
    \/ Start(p)
    \/ Collect(p) \/ CollectFails(p)
    \/ Validate(p) \/ ValidateFails(p)
    \/ Train(p) \/ TrainFails(p)
    \/ Evaluate(p) \/ EvaluateFails(p)
    \/ Decide(p)
    \/ PromoteArchive(p) \/ PromoteArchiveFails(p)
    \/ PromoteOpen(p) \/ PromoteOpenFails(p)
    \/ PromoteDump(p) \/ PromoteDumpFails(p)
    \/ Notify(p)
    \/ Except(p)
    \/ Finally(p)
    \/ Exit(p)

\* One job at a time (the scheduling the design assumes).
Next == Tick \/ \E p \in Sequencial : Job(p)

Spec == Init /\ [][Next]_vars

\* The job and the demo script, run one after the other in any order.
NextDemos == Next \/ Demo06

SpecDemos == Init /\ [][NextDemos]_vars

\* The job and demo_04, which empties the registry before its job run.
NextDemo04 == Next \/ \E p \in Sequencial : Demo04(p)

SpecDemo04 == Init /\ [][NextDemo04]_vars

\* The job and demo_07, run one after the other in any order.
NextDemo07 == Next \/ Demo07

SpecDemo07 == Init /\ [][NextDemo07]_vars

\* Two triggers of the job at once (two cron entries, a manual run during
\* the scheduled one): two processes run executar_job on the same files,
\* and nothing in the code makes one wait for the other.
NextConcorrente ==
    \/ Tick
    \/ \E p \in Procs : (pc[p] = "idle" => execucoes < MaxGatilhos) /\ Job(p)

SpecConcorrente == Init /\ [][NextConcorrente]_vars

\* The validators alone, on every batch and minimum of the bounds.
SpecValidar == InitValidar /\ [][NextValidar]_vars

-----------------------------------------------------------------------------
(* Properties *)

Fez(p, nome) == \E i \in 1..Len(passos[p]) : passos[p][i] = nome
Conta(s, x) == Cardinality({i \in 1..Len(s) : s[i] = x})
Prefixo(s, t) == Len(s) <= Len(t) /\ \A i \in 1..Len(s) : s[i] = t[i]
Terminou(p) == pc[p] = "done"
RamoPromover(p) == pc[p] = "promote" \/ Fez(p, "Promote")
RamoAlertar(p) == pc[p] = "notify" \/ Fez(p, "Notify")

\* C1: the decision is Promote exactly when the candidate's score is at
\* least the incumbent's, a tie included: in the job (after its Decide step
\* the promotion branch is taken iff f1_novo >= f1_atual, the alert branch
\* iff f1_novo < f1_atual) and in demo_06 (it prints PROMOVER iff
\* f1_novo >= f1_atual).
C1_PromoverSseNaoPior ==
    /\ \A p \in Procs : Fez(p, "Decide") =>
          /\ eh_melhor[p] <=> (f1_novo[p] >= f1_atual[p])
          /\ RamoPromover(p) <=> (f1_novo[p] >= f1_atual[p])
          /\ RamoAlertar(p) <=> (f1_novo[p] < f1_atual[p])
    /\ demo06.decisao # "" =>
          (demo06.decisao = "PROMOVER" <=> demo06.f1_novo >= demo06.f1_atual)

\* A job run whose candidate ties with an incumbent of positive score is on
\* the promotion branch.
C1_Empate ==
    \E p \in Procs :
        /\ Fez(p, "Decide")
        /\ f1_atual[p] > 0
        /\ f1_novo[p] = f1_atual[p]
        /\ pc[p] = "promote"

\* C2: a run that starts with no production file takes 0.0 as the
\* incumbent's score, and once it has decided it has decided Promote,
\* whatever the candidate scored.
C2_PrimeiroModeloPromovido ==
    \A p \in Procs :
        (producao0[p] = Ausente /\ (pc[p] = "decide" \/ Fez(p, "Decide"))) =>
            /\ f1_atual[p] = 0
            /\ Fez(p, "Decide") => (eh_melhor[p] /\ RamoPromover(p) /\ ~RamoAlertar(p))

\* A first run whose candidate scores 0 has been promoted.
C2_PrimeiroComZero ==
    \E p \in Procs :
        /\ producao0[p] = Ausente
        /\ Terminou(p)
        /\ f1_novo[p] = 0
        /\ desfechos[p] = <<"promoted">>
        /\ producao = Pickle_dump(modelo[p])

Parado == \A p \in Procs : pc[p] \in {"idle", "done"}
Completo(f) == f.kind = "pkl"
PromocoesAposPrimeira == IF nPromover = 0 THEN 0 ELSE nPromover - 1

\* C3: between job runs there is no or one complete current artifact, and
\* the archive holds as many entries as Promote decisions were made after
\* the first one.  Stated for the histories in which no run raised, so that
\* a violation does not rest on a promotion that failed half-way (C5).
C3_ArquivoContaPromocoes ==
    (Parado /\ nFalhas = 0) =>
        /\ producao = Ausente \/ Completo(producao)
        /\ Cardinality(DOMAIN arquivo) = PromocoesAposPrimeira

\* C4: while a promotion that supersedes a complete incumbent is under way,
\* the production file is the complete previous incumbent or the complete
\* candidate.
C4_LeitorNuncaVeIncompleto ==
    \A p \in Procs :
        (pc[p] \in {"promote", "promote_open", "promote_dump"} /\ Completo(producao0[p])) =>
            producao \in {producao0[p], Pickle_dump(modelo[p])}

\* C5: a run that started with a complete incumbent and raised, at whatever
\* step, leaves that incumbent as the production file and the archive as it
\* was.
C5_FalhaNaoTocaRegistro ==
    \A p \in Procs :
        (Terminou(p) /\ saida[p] = "raised" /\ Completo(producao0[p])) =>
            /\ producao = producao0[p]
            /\ arquivo = arquivo0[p]

\* C6: from the moment a run has decided Reject the production file and
\* the archive are what they were when the run started, and the run ends
\* having sent one alert, which carries the incumbent's and the
\* candidate's score.
C6_RejeicaoNaoTocaRegistro ==
    \A p \in Procs :
        (Fez(p, "Decide") /\ ~eh_melhor[p]) =>
            /\ f1_novo[p] < f1_atual[p]
            /\ producao = producao0[p]
            /\ arquivo = arquivo0[p]
            /\ Terminou(p) =>
                  /\ alertas[p] = << [mensagem |-> "Modelo novo pior que atual",
                                      f1 |-> <<f1_atual[p], f1_novo[p]>>] >>
                  /\ desfechos[p] = <<"rejected">>

\* A run has ended rejected against an incumbent of the top score.
C6_Rejeitado ==
    \E p \in Procs :
        /\ Terminou(p)
        /\ Fez(p, "Decide") /\ ~eh_melhor[p]
        /\ f1_atual[p] = MaxScore
        /\ Len(alertas[p]) = 1
        /\ Completo(producao)

Desfechos == {"promoted", "rejected", "aborted"}

\* C7: a run reports at most one terminal outcome at any time, only ever
\* one of promoted, rejected, aborted, none before its last two steps, and
\* a run that has ended has reported exactly one.
C7_UmDesfecho ==
    \A p \in Procs :
        /\ Len(desfechos[p]) <= 1
        /\ \A i \in 1..Len(desfechos[p]) : desfechos[p][i] \in Desfechos
        /\ Terminou(p) => Len(desfechos[p]) = 1
        /\ pc[p] \notin {"except", "finally", "done"} => desfechos[p] = <<>>

\* A run has ended aborted by a failure inside the promotion's write.
C7_AbortadoNaPromocao ==
    \E p \in Procs :
        /\ Terminou(p)
        /\ erro[p] = "promote"
        /\ producao = Truncado
        /\ desfechos[p] = <<"aborted">>

\* C8: the finalization step runs exactly once and last: a run that has
\* ended has one Report step, as its last step, and a run that has not
\* ended has none yet.
C8_FinalizacaoUmaVez ==
    \A p \in Procs :
        /\ Terminou(p) =>
              /\ Conta(passos[p], "Report") = 1
              /\ passos[p][Len(passos[p])] = "Report"
        /\ pc[p] # "done" => Conta(passos[p], "Report") = 0

\* Runs have ended on each path: here one that was aborted in Evaluate.
C8_FimAposAbortar ==
    \E p \in Procs :
        /\ Terminou(p)
        /\ erro[p] = "evaluate"
        /\ passos[p] = <<"Collect", "Validate", "Train", "Evaluate", "Aborted", "Report">>

ErrosAteDecide == {"collect", "Dados insuficientes", "train", "evaluate"}
Etapas == {"Collect", "Validate", "Train", "Evaluate", "Decide", "Promote",
           "Notify", "Aborted", "Report"}

\* C9: a run in which Collect, Validate, Train or Evaluate raised (Decide
\* has nothing that raises) goes through the except clause once, reports
\* aborted and nothing else, has sent exactly one alert, whose message is
\* the error's, and has executed no step twice.
C9_ErroAbortaSemRepetir ==
    \A p \in Procs :
        /\ \A e \in Etapas : Conta(passos[p], e) <= 1
        /\ (erro[p] \in ErrosAteDecide /\ pc[p] \in {"finally", "done"}) =>
              /\ Conta(passos[p], "Aborted") = 1
              /\ desfechos[p] = <<"aborted">>
              /\ alertas[p] = << [mensagem |-> erro[p], f1 |-> <<>>] >>
        /\ Terminou(p) => (saida[p] = "raised" <=> erro[p] # "")

\* A run has ended aborted by the validator's error.
C9_AbortadoNaValidacao ==
    \E p \in Procs :
        /\ Terminou(p)
        /\ erro[p] = "Dados insuficientes"
        /\ alertas[p] = << [mensagem |-> "Dados insuficientes", f1 |-> <<>>] >>
        /\ saida[p] = "raised"

Ordem(ramo) == <<"Collect", "Validate", "Train", "Evaluate", "Decide", ramo>>
NoCorpo(e) == e \notin {"Aborted", "Report"}
Corpo(s) == SelectSeq(s, NoCorpo)

\* C10: the steps of a run are an initial part of Collect, Validate, Train,
\* Evaluate, Decide, then Promote or Notify, the whole of it when the run
\* ends without an error; Report comes after them; and training starts only
\* on a batch the validator has returned (cleaned, with at least the
\* minimum of rows), after a Validate step that did not raise.
C10_OrdemDasEtapas ==
    \A p \in Procs :
        /\ \E ramo \in {"Promote", "Notify"} :
              /\ Prefixo(Corpo(passos[p]), Ordem(ramo))
              /\ (Terminou(p) /\ erro[p] = "") => Corpo(passos[p]) = Ordem(ramo)
        /\ Fez(p, "Report") => passos[p][Len(passos[p])] = "Report"
        /\ pc[p] = "train" =>
              /\ passos[p] = <<"Collect", "Validate">>
              /\ Len(dados[p]) >= minimo
              /\ Limpar(dados[p]) = dados[p]
        /\ Fez(p, "Train") => erro[p] # "Dados insuficientes"

\* A run has ended promoted after all six steps, in order.
C10_CorridaCompleta ==
    \E p \in Procs :
        /\ Terminou(p)
        /\ passos[p] = <<"Collect", "Validate", "Train", "Evaluate", "Decide",
                         "Promote", "Report">>
        /\ desfechos[p] = <<"promoted">>

\* C11: a run whose validation raised the data-quality error has not
\* trained (no Train step, no model), and the production file, the archive
\* and the test file are what they were when the run started: a test file
\* that was absent is still absent.  In demo_07 the same: after the error
\* the script is never at its training print, and no step of the script
\* changes any of the three files.
C11_FalhaDeValidacaoNaoTreina ==
    /\ [](\A p \in Procs :
            erro[p] = "Dados insuficientes" =>
                /\ ~Fez(p, "Train")
                /\ modelo[p] = SemModelo
                /\ producao = producao0[p]
                /\ arquivo = arquivo0[p]
                /\ teste = teste0[p])
    /\ [](demo07.erro # "" => demo07.pc # "train")
    /\ [][demo07.pc # "idle" => UNCHANGED ficheiros]_vars

\* A run has ended aborted by the validator before any test file existed.
C11_AbortadoSemTeste ==
    \E p \in Procs :
        /\ Terminou(p)
        /\ erro[p] = "Dados insuficientes"
        /\ passos[p] = <<"Collect", "Validate", "Aborted", "Report">>
        /\ teste = "ausente"

Validou(r, limpos, m) ==
    IF Len(limpos) < m THEN r = Levanta("ValueError") ELSE r = Devolve(limpos)

\* C12: for every batch and minimum, each of the two validar_dados raises
\* ValueError when fewer than the minimum of rows are left after its
\* cleaning, and nothing else; otherwise it raises nothing and returns the
\* cleaned batch.
C12_ErroSoDeQualidade ==
    /\ validacao.pc \in {"job", "demo07", "fim"} =>
          Validou(validacao.job, Limpar(validacao.lote), validacao.minimo)
    /\ validacao.pc \in {"demo07", "fim"} =>
          Validou(validacao.demo07, Demo07_Limpar(validacao.lote), validacao.minimo)

\* C13: when the job's validar_dados has returned a batch, a second call
\* on that batch with the same minimum raises nothing and returns the batch
\* as it got it, no row removed.
C13_ValidarIdempotente ==
    (validacao.pc = "fim" /\ validacao.job.tipo = "return") =>
        /\ validacao.de_novo = Devolve(validacao.job.dados)
        /\ Len(validacao.de_novo.dados) = Len(validacao.job.dados)

\* The first call removed a row and returned the rest; the second call has
\* been made.
C13_RevalidadoAposLimpeza ==
    /\ validacao.pc = "fim"
    /\ validacao.job.tipo = "return"
    /\ Len(validacao.job.dados) = 1
    /\ Len(validacao.lote) = 2

Avaliou(p) == Fez(p, "Evaluate") /\ erro[p] # "evaluate"

\* C14: in any sequence of job runs the test file is written only when
\* there is none (so it is generated at most once and never replaced), a
\* run that has scored has scored on that one file, and a model gets the
\* same score whenever it is scored: the candidate the score its record
\* holds, and the incumbent, in a later run, the score it was promoted with.
C14_TesteFixoEstavel ==
    /\ [][teste # "ausente" => teste' = teste]_vars
    /\ [][teste' # teste => \E p \in Procs : pc[p] = "evaluate"]_vars
    /\ [](\A p \in Procs :
            Avaliou(p) =>
                /\ teste = "fixo"
                /\ teste0[p] \in {"ausente", "fixo"}
                /\ f1_novo[p] = modelo[p].f1
                /\ Exists(producao0[p]) => f1_atual[p] = Pickle_load(producao0[p]).f1)

\* A run that found the test file written by an earlier run has scored an
\* incumbent of the top score.
C14_SegundaAvaliacao ==
    \E p \in Procs :
        /\ Avaliou(p)
        /\ teste0[p] = "fixo"
        /\ Completo(producao0[p])
        /\ f1_atual[p] = MaxScore

Promovido(p) == Terminou(p) /\ desfechos[p] = <<"promoted">>
NaEscrita(p) == pc[p] \in {"promote_open", "promote_dump"}

\* C15: a promotion that finds a production file first stores that file in
\* the archive, under the timestamp of the moment, and then writes the
\* candidate: while the production file is being written the archive
\* already holds the previous incumbent, and when the run has ended
\* promoted the archive holds the previous incumbent and the production
\* file is the candidate.
C15_PromocaoArquivaAnterior ==
    /\ [][\A p \in Procs :
            (pc[p] = "promote" /\ pc'[p] = "promote_open" /\ Exists(producao)) =>
                /\ Timestamp(relogio) \in DOMAIN arquivo'
                /\ arquivo'[Timestamp(relogio)] = producao
                /\ producao' = producao]_vars
    /\ [](\A p \in Procs :
            ((NaEscrita(p) \/ Promovido(p)) /\ Exists(producao0[p])) =>
                /\ \E k \in DOMAIN arquivo : arquivo[k] = producao0[p]
                /\ Promovido(p) => producao = Pickle_dump(modelo[p]))

\* A run has ended promoted over an incumbent, with an older entry already
\* in the archive.
C15_PromovidoSobreAnterior ==
    \E p \in Procs :
        /\ Promovido(p)
        /\ Completo(producao0[p])
        /\ producao # producao0[p]
        /\ arquivo0[p] # <<>>
        /\ Cardinality(DOMAIN arquivo) = 2

\* C16: a run that found no production file and an empty archive, as after
\* demo_04's limpar_estado, and decided Promote, creates no archive entry
\* at any step of its promotion, and when it has ended promoted the
\* production file is its candidate and the archive is still empty.
C16_PrimeiraPromocaoSemArquivo ==
    \A p \in Procs :
        (producao0[p] = Ausente /\ arquivo0[p] = <<>> /\ RamoPromover(p)) =>
            /\ arquivo = <<>>
            /\ Promovido(p) => producao = Pickle_dump(modelo[p])

\* After runs that promoted, limpar_estado has emptied the registry and the
\* run that followed has ended promoted.
C16_PromovidoAposLimpar ==
    \E p \in Procs :
        /\ Promovido(p)
        /\ producao0[p] = Ausente
        /\ teste0[p] = "ausente"
        /\ nPromover >= 2
        /\ arquivo = <<>>

\* C17: every archive entry a run found when it started is, at every later
\* moment of the run, still in the archive with the same content.  Stated
\* for the histories in which no run has raised, so that a violation does
\* not rest on a copy that failed half-way (C5).
C17_ArquivoImutavel ==
    \A p \in Procs :
        (erro[p] = "" /\ nFalhas = 0) =>
            \A k \in DOMAIN arquivo0[p] :
                k \in DOMAIN arquivo /\ arquivo[k] = arquivo0[p][k]

AntesDePromover == {"collect", "validate", "train", "evaluate", "decide", "notify"}
NaPromocao == {"promote", "promote_open", "promote_dump"}

\* C18: in a job run the production file and the archive change only in a
\* step of the promotion, and a run is in its promotion only after its
\* Decide step gave Promote; so a run at or before Decide, a run that was
\* rejected, and a run that raised in Collect, Validate, Train or Evaluate
\* (Decide raises nothing) has the production file and the archive it
\* started with.
C18_SoAPromocaoEscreve ==
    /\ [][registro' # registro => \E p \in Procs : pc[p] \in NaPromocao]_vars
    /\ [](\A p \in Procs :
            /\ (pc[p] \in NaPromocao \/ Fez(p, "Promote")) =>
                  (Fez(p, "Decide") /\ eh_melhor[p])
            /\ (\/ pc[p] \in AntesDePromover
                \/ erro[p] \in ErrosAteDecide
                \/ (Fez(p, "Decide") /\ ~eh_melhor[p])) =>
                  (producao = producao0[p] /\ arquivo = arquivo0[p]))

\* A run has ended aborted in Train with a registry that holds a current
\* model and an archive entry.
C18_AbortadoComRegistro ==
    \E p \in Procs :
        /\ Terminou(p)
        /\ erro[p] = "train"
        /\ Completo(producao)
        /\ arquivo # <<>>

\* C20: alertar is called at most once in a run; a run that has reported
\* rejected or aborted has called it exactly once, from that moment on,
\* and a run that has ended promoted has not called it.
C20_AlertaUmaVez ==
    \A p \in Procs :
        /\ Len(alertas[p]) <= 1
        /\ desfechos[p] \in {<<"rejected">>, <<"aborted">>} => Len(alertas[p]) = 1
        /\ Terminou(p) => (alertas[p] = <<>> <=> desfechos[p] = <<"promoted">>)

\* A run has ended aborted in Collect, with its one alert, after a run that
\* was promoted.
C20_AbortadoComUmAlerta ==
    \E p \in Procs :
        /\ Terminou(p)
        /\ erro[p] = "collect"
        /\ desfechos[p] = <<"aborted">>
        /\ Len(alertas[p]) = 1
        /\ Completo(producao)

NoRegistro(p) ==
    \/ producao = Pickle_dump(modelo[p])
    \/ \E k \in DOMAIN arquivo : arquivo[k] = Pickle_dump(modelo[p])

\* C19: when the runs that were triggered together have all ended, none of
\* them having raised, the registry is one that runs taken one after the
\* other leave: the production file is complete, no archived model scores
\* higher than the current one (no worse candidate has replaced a better
\* one), and the model of every run that ended promoted is the current one
\* or is in the archive (no promotion is lost).
C19_ComoEmSequencia ==
    (Parado /\ nFalhas = 0) =>
        /\ producao = Ausente \/ Completo(producao)
        /\ \A k \in DOMAIN arquivo :
              (Completo(arquivo[k]) /\ Completo(producao)) =>
                  Pickle_load(arquivo[k]).f1 <= Pickle_load(producao).f1
        /\ \A p \in Procs : Promovido(p) => NoRegistro(p)

\* C21: once the test file exists no step changes it: it is not rewritten,
\* not generated again, not deleted.
C21_TesteEscritoUmaVez ==
    [][teste # "ausente" => teste' = teste]_vars

\* C22: the production file changes only in a step of a job run that is
\* inside promover_modelo after its Decide step gave Promote; no other
\* step writes it or removes it.
C22_SoPromoverEscreveProducao ==
    [][producao' # producao =>
          \E p \in Procs : pc[p] \in {"promote_open", "promote_dump"} /\ eh_melhor[p]]_vars

Chamado == validacao.pc # "chamada"

\* The order of cleaning the design gives: rows with a missing field go
\* first, then amounts not above zero, then hours outside 0..23, and the
\* duplicates last, each step on the result of the one before.
Etapas_de_referencia(d) ==
    LET a == SelectSeq(d, SemNaN)
        b == SelectSeq(a, ValorPositivo)
        c == SelectSeq(b, HoraValida)
    IN  <<a, b, c, drop_duplicates(c)>>

\* C23: on every batch, each validar_dados goes through the cleaning steps
\* of the reference order: the batch after each step of the job's is the
\* batch the reference order has there, and so it is after each step of
\* demo_07's, whose cleaned batch is the one the reference order ends
\* with, duplicates dropped.
C23_OrdemDaLimpeza ==
    Chamado =>
        LET referencia == Etapas_de_referencia(validacao.lote)
            demo == Demo07_Limpar_etapas(validacao.lote)
        IN  /\ Limpar_etapas(validacao.lote) = referencia
            /\ \A i \in 1..Len(demo) : demo[i] = referencia[i]
            /\ Demo07_Limpar(validacao.lote) = referencia[Len(referencia)]

\* The columns of the fixed schema: the numeric ones and one for each of
\* the four known categories.
Colunas_do_esquema == <<"valor", "hora", "A", "B", "C", "D">>

\* C24: the features prepared from any validated batch that has rows have
\* the columns of the fixed schema, in its order, whichever categories
\* occur in the batch.
C24_ColunasFixas ==
    (validacao.pc = "features" /\ validacao.job.dados # <<>>) =>
        validacao.colunas = Colunas_do_esquema

\* C25: a run that has ended promoted or rejected has returned to its
\* caller with no error, and a run that has ended aborted has raised to its
\* caller the error that made it abort; a run ends in no other way.
C25_SaidaConformeDesfecho ==
    \A p \in Procs :
        Terminou(p) =>
            /\ desfechos[p] \in {<<"promoted">>, <<"rejected">>, <<"aborted">>}
            /\ desfechos[p] \in {<<"promoted">>, <<"rejected">>} =>
                   saida[p] = "returned" /\ erro[p] = ""
            /\ desfechos[p] = <<"aborted">> =>
                   saida[p] = "raised" /\ erro[p] # ""

\* A run aborted in Train has raised to its caller, after a run that ended
\* rejected had returned.
C25_AbortadoLevanta ==
    \E p \in Procs :
        /\ Terminou(p)
        /\ desfechos[p] = <<"aborted">>
        /\ erro[p] = "train"
        /\ saida[p] = "raised"
        /\ execucoes >= 2

\* The message says how many rows the batch had, how many are left after
\* the cleaning, and some percentage lost.
Com_contagens(mensagem, original, limpos) ==
    /\ <<"original", original>> \in mensagem
    /\ <<"limpos", limpos>> \in mensagem
    /\ \E campo \in mensagem : campo[1] = "perdidos"

\* C26: the ValueError that either validar_dados raises for a batch whose
\* cleaned rows are fewer than the minimum says the number of rows of the
\* batch, the number of rows left after the cleaning and the percentage of
\* rows lost.
C26_ErroComContagens ==
    /\ (Chamado /\ validacao.job.tipo = "ValueError") =>
          Com_contagens(validacao.erro_job, Len(validacao.lote),
                        Len(Limpar(validacao.lote)))
    /\ (validacao.pc \in {"demo07", "fim"} /\ validacao.demo07.tipo = "ValueError") =>
          Com_contagens(validacao.erro_demo07, Len(validacao.lote),
                        Len(Demo07_Limpar(validacao.lote)))

\* The score on the fixed test set of the model in a complete file.
Pontuacao(f) == Pickle_load(f).f1

\* C27: a run that started with a complete production file and has ended
\* has either left that file as it was or put in its place a complete file
\* of a model that scores at least as much on the fixed test set.
C27_PontuacaoNaoDesce ==
    \A p \in Procs :
        (Terminou(p) /\ Completo(producao0[p])) =>
            \/ producao = producao0[p]
            \/ Completo(producao) /\ Pontuacao(producao) >= Pontuacao(producao0[p])

\* C28: on every batch the job's validar_dados ends as the cleaning in the
\* reference order would make it end: it returns exactly the rows that
\* order leaves, in their order, or raises when they are fewer than the
\* minimum.
C28_MesmoResultadoQueAReferencia ==
    Chamado =>
        LET referencia == Etapas_de_referencia(validacao.lote)[4]
        IN  /\ Limpar(validacao.lote) = referencia
            /\ validacao.job = IF Len(referencia) < validacao.minimo
                               THEN Levanta("ValueError")
                               ELSE Devolve(referencia)

\* The job's validar_dados has returned one row of a batch of two equal
\* valid rows.
C28_LoteComRepetida ==
    /\ Chamado
    /\ Len(validacao.lote) = 2
    /\ validacao.lote[1] = validacao.lote[2]
    /\ validacao.job = Devolve(<<validacao.lote[1]>>)

\* The rows of s are rows of t, in the order they have in t.
RECURSIVE Subsequencia(_, _)
Subsequencia(s, t) ==
    IF s = <<>> THEN TRUE
    ELSE IF t = <<>> THEN FALSE
    ELSE IF Head(s) = Head(t) THEN Subsequencia(Tail(s), Tail(t))
    ELSE Subsequencia(s, Tail(t))

\* The call returned rows of the batch in their order, and raised the
\* ValueError if the batch had fewer rows than the minimum.
So_retira(resultado, lote, m) ==
    /\ resultado.tipo = "return" => Subsequencia(resultado.dados, lote)
    /\ Len(lote) < m => resultado.tipo = "ValueError"

\* C29: what either validar_dados returns is rows of the batch it got, none
\* added or changed, in their order; so on every batch of fewer rows than
\* the minimum, whatever the rows, it raises the ValueError for
\* insufficient data.
C29_SoRetiraLinhas ==
    /\ Chamado => So_retira(validacao.job, validacao.lote, validacao.minimo)
    /\ validacao.pc \in {"demo07", "fim"} =>
          So_retira(validacao.demo07, validacao.lote, validacao.minimo)

\* C30: in any sequence of job runs that starts with no production file
\* and no test file, whenever there is a production file there is a test
\* file too.
C30_ProducaoSoComTeste == Exists(producao) => teste # "ausente"

\* The first run, started with neither file, has been promoted: both files
\* are there.
C30_PrimeiraPromocaoComTeste ==
    \E p \in Procs :
        /\ Terminou(p)
        /\ producao0[p] = Ausente
        /\ teste0[p] = "ausente"
        /\ Fez(p, "Promote")
        /\ Completo(producao)
        /\ teste = "fixo"

====
